---- MODULE Spec2Model ----
(***************************************************************************)
(* Model of server.js: an Express application over three Mongoose          *)
(* collections (User, Product, Purchase).                                  *)
(*                                                                         *)
(* Every handler is an async function.  Node runs the code between two      *)
(* awaits without interruption, and every awaited Mongoose call is one      *)
(* MongoDB command, which the server applies atomically to one document.    *)
(* So a handler is a chain of atomic steps, one per await, and steps of     *)
(* different requests interleave freely.  A request's arrival is merged     *)
(* with its first database command: nothing is observable in between.       *)
(*                                                                         *)
(* Bodies are well formed (required fields present, numbers are integers). *)
(* Product fields other than product_id and quantity (name, type, price,   *)
(* purchasePrice, rack) and Purchase.customer/date take part in no guard    *)
(* and are left out of the documents.                                      *)
(***************************************************************************)
EXTENDS Integers, Sequences, FiniteSets

VARIABLES
    users,      \* User collection:     _id -> [username, email, password, phone]
    products,   \* Product collection:  _id -> [product_id, quantity]
    purchases,  \* Purchase collection: _id -> [products, total]
    nextOid,    \* number of ObjectIds handed out so far
    reqs        \* request slot -> the request, its handler's locals and its response

vars == <<users, products, purchases, nextOid, reqs>>

-----------------------------------------------------------------------------
(* Bounds and input domains *)

NumReq == 3
MaxQty == 2

Slots == 1..NumReq

Usernames == {"alice", "bob"}
Emails == {"a@x", "b@x"}
Passwords == {"pw", "PW"}
Phones == {"555"}

\* product_id values sent by clients; none of them is a 24-digit hex string
ProductIds == {"P1", "P2"}

\* quantity of an added or replaced product (the schema sets no minimum)
Quantities == (0..MaxQty) \cup {-1}

\* quantity in the body of a full-replace update
NewQuantities == {-1, MaxQty}

\* quantityToReduce of a reduce request
Amounts == (0..(MaxQty + 1)) \cup {-1}

\* ObjectIds in the order the driver generates them; AbsentOid is a well
\* formed ObjectId that no document ever gets
OidNames == <<"oid1", "oid2", "oid3", "oid4", "oid5", "oid6", "oid7", "oid8">>
AbsentOid == "oid0"
ObjectIds == {OidNames[n] : n \in 1..Len(OidNames)} \cup {AbsentOid}

LineItems == {<<>>,
              <<[product_id |-> "P1", quantity |-> 1], [product_id |-> "P2", quantity |-> MaxQty]>>}
PurchaseBodies == [products : LineItems, total : {100}]

-----------------------------------------------------------------------------
(* Express router *)

\* app.METHOD(path, handler) calls in registration order
Routes == <<
    [method |-> "POST",   path |-> "/api/signup",              handler |-> "signup"],
    [method |-> "POST",   path |-> "/api/login",               handler |-> "login"],
    [method |-> "GET",    path |-> "/api/users",               handler |-> "getUsers"],
    [method |-> "DELETE", path |-> "/api/products/:id",        handler |-> "deleteProductById"],
    [method |-> "POST",   path |-> "/api/products",            handler |-> "addProduct"],
    [method |-> "GET",    path |-> "/api/products",            handler |-> "getProducts"],
    [method |-> "GET",    path |-> "/api/purchases",           handler |-> "getPurchases"],
    [method |-> "PUT",    path |-> "/api/products/update/:id", handler |-> "updateProduct"],
    [method |-> "PUT",    path |-> "/api/products/:id",        handler |-> "reduceQuantity"],
    [method |-> "DELETE", path |-> "/api/products/:id",        handler |-> "deleteProductByProductId"],
    [method |-> "POST",   path |-> "/api/purchases",           handler |-> "savePurchase"] >>

Matches(route, method, path) == route.method = method /\ route.path = path

DispatchLast(method, path) ==
    LET hits == {n \in 1..Len(Routes) : Matches(Routes[n], method, path)}
    IN  Routes[CHOOSE n \in hits : \A m \in hits : m <= n].handler

\* Express walks the stack in registration order and runs the first route
\* that matches; no handler of this application calls next(), so a later
\* route on the same method and path never runs.
Dispatch(method, path) ==
    LET hits == {n \in 1..Len(Routes) : Matches(Routes[n], method, path)}
    IN  Routes[CHOOSE n \in hits : \A m \in hits : n <= m].handler

-----------------------------------------------------------------------------
(* Mongoose / MongoDB primitives *)

\* Casting a path parameter to ObjectId: fails (CastError) unless well formed
IsObjectId(s) == s \in ObjectIds

NewOid == OidNames[nextOid + 1]

\* the documents of a collection that satisfy a filter, with their _id
Docs(coll) == {[_id |-> id, doc |-> coll[id]] : id \in DOMAIN coll}

Insert(coll, id, doc) == [x \in DOMAIN coll \cup {id} |-> IF x = id THEN doc ELSE coll[x]]

Remove(coll, id) == [x \in DOMAIN coll \ {id} |-> coll[x]]

-----------------------------------------------------------------------------
(* Requests *)

Idle == [handler |-> "none", pc |-> "idle", status |-> 0]

\* slots are taken in order: which slot a request occupies means nothing
Free(i) == reqs[i].pc = "idle" /\ (IF i = 1 THEN TRUE ELSE reqs[i - 1].pc # "idle")

\* res.status(code).json(...)
Respond(r, code) == [r EXCEPT !.pc = "done", !.status = code]

Init ==
    /\ users = << >>
    /\ products = << >>
    /\ purchases = << >>
    /\ nextOid = 0
    /\ reqs = [i \in Slots |-> Idle]

-----------------------------------------------------------------------------
(* POST /api/signup *)

ExistingUser(username, email) ==
    {d \in Docs(users) : d.doc.email = email \/ d.doc.username = username}

UniqueUserNone(doc) == FALSE

\* the unique indexes on username and email, which Mongoose builds from the
\* schema at start-up (E11000 on insert)
UniqueUserViolated(doc) ==
    \E id \in DOMAIN users :
        users[id].username = doc.username \/ users[id].email = doc.email

\* first step: User.findOne({$or: [{email}, {username}]}), then the check
Signup(i, body) ==
    /\ Free(i)
    /\ Dispatch("POST", "/api/signup") = "signup"
    /\ LET r == [method |-> "POST", path |-> "/api/signup", handler |-> "signup",
                 pc |-> "save", status |-> 0, body |-> body]
       IN  reqs' = [reqs EXCEPT ![i] =
                IF ExistingUser(body.username, body.email) # {}
                THEN Respond(r, 400)
                ELSE r]
    /\ UNCHANGED <<users, products, purchases, nextOid>>

\* second step: newUser.save()
SignupSave(i) ==
    /\ reqs[i].handler = "signup" /\ reqs[i].pc = "save"
    /\ IF UniqueUserViolated(reqs[i].body)
       THEN /\ reqs' = [reqs EXCEPT ![i] = Respond(@, 500)]
            /\ UNCHANGED <<users, nextOid>>
       ELSE /\ users' = Insert(users, NewOid, reqs[i].body)
            /\ nextOid' = nextOid + 1
            /\ reqs' = [reqs EXCEPT ![i] = Respond(@, 201)]
    /\ UNCHANGED <<products, purchases>>

-----------------------------------------------------------------------------
(* POST /api/login *)

PasswordMismatchLoose(stored, given) == FALSE

PasswordMismatch(stored, given) == stored # given

\* one step: User.findOne({username}), then the two checks
Login(i, username, password) ==
    /\ Free(i)
    /\ Dispatch("POST", "/api/login") = "login"
    /\ LET found == {d \in Docs(users) : d.doc.username = username}
           r == [method |-> "POST", path |-> "/api/login", handler |-> "login",
                 pc |-> "find", status |-> 0,
                 body |-> [username |-> username, password |-> password]]
       IN  reqs' = [reqs EXCEPT ![i] =
                IF found = {} THEN Respond(r, 400)
                ELSE LET user == (CHOOSE d \in found : TRUE).doc
                     IN  IF PasswordMismatch(user.password, password)
                         THEN Respond(r, 401)
                         ELSE Respond(r, 200)]
    /\ UNCHANGED <<users, products, purchases, nextOid>>

-----------------------------------------------------------------------------
(* Product handlers *)

NoDoc == [_id |-> "null"]

\* a stored product as a handler sees it: the hydrated document
Hydrate(id) ==
    [_id |-> id, product_id |-> products[id].product_id, quantity |-> products[id].quantity]

\* Product.findOne({product_id}): the first match in natural order, or null
FindByProductId(pid) ==
    LET found == {id \in DOMAIN products : products[id].product_id = pid}
    IN  IF found = {} THEN NoDoc ELSE Hydrate(CHOOSE id \in found : TRUE)

\* path parameters a client sends: a product_id, the _id of a stored product,
\* or a well formed ObjectId that matches nothing
PathParams == ProductIds \cup DOMAIN products \cup {AbsentOid}

UniqueProductNone(pid) == FALSE

\* the unique index on product_id (E11000 on insert)
UniqueProductViolated(pid) ==
    \E id \in DOMAIN products : products[id].product_id = pid

\* POST /api/products, one step: new Product({...}) takes a fresh _id, then
\* newProduct.save()
AddProduct(i, pid, qty) ==
    /\ Free(i)
    /\ Dispatch("POST", "/api/products") = "addProduct"
    /\ LET body == [product_id |-> pid, quantity |-> qty]
           r == [method |-> "POST", path |-> "/api/products", handler |-> "addProduct",
                 pc |-> "save", status |-> 0, body |-> body,
                 product |-> [_id |-> NewOid, product_id |-> pid, quantity |-> qty]]
       IN  IF UniqueProductViolated(pid)
           THEN /\ reqs' = [reqs EXCEPT ![i] = Respond(r, 500)]
                /\ UNCHANGED products
           ELSE /\ products' = Insert(products, NewOid, body)
                /\ reqs' = [reqs EXCEPT ![i] = Respond(r, 201)]
    /\ nextOid' = nextOid + 1
    /\ UNCHANGED <<users, purchases>>

\* DELETE /api/products/:id, one step.  The router picks the handler:
\*   deleteProductById:        Product.findByIdAndDelete(req.params.id)
\*   deleteProductByProductId: Product.findOneAndDelete({product_id: req.params.id})
DeleteProduct(i, param) ==
    /\ Free(i)
    /\ LET h == Dispatch("DELETE", "/api/products/:id")
           r == [method |-> "DELETE", path |-> "/api/products/:id", handler |-> h,
                 pc |-> "find", status |-> 0, id |-> param, product |-> NoDoc]
       IN  IF h = "deleteProductById"
           THEN IF ~IsObjectId(param)
                THEN \* CastError, caught
                     /\ reqs' = [reqs EXCEPT ![i] = Respond(r, 500)]
                     /\ UNCHANGED products
                ELSE IF param \notin DOMAIN products
                THEN /\ reqs' = [reqs EXCEPT ![i] = Respond(r, 404)]
                     /\ UNCHANGED products
                ELSE /\ products' = Remove(products, param)
                     /\ reqs' = [reqs EXCEPT ![i] =
                                    Respond([r EXCEPT !.product = Hydrate(param)], 200)]
           ELSE LET deleted == FindByProductId(param)
                IN  IF deleted = NoDoc
                    THEN /\ reqs' = [reqs EXCEPT ![i] = Respond(r, 404)]
                         /\ UNCHANGED products
                    ELSE /\ products' = Remove(products, deleted._id)
                         /\ reqs' = [reqs EXCEPT ![i] =
                                        Respond([r EXCEPT !.product = deleted], 200)]
    /\ UNCHANGED <<users, purchases, nextOid>>

\* PUT /api/products/update/:id, one step: Product.findByIdAndUpdate
UpdateProduct(i, param, qty) ==
    /\ Free(i)
    /\ Dispatch("PUT", "/api/products/update/:id") = "updateProduct"
    /\ LET r == [method |-> "PUT", path |-> "/api/products/update/:id",
                 handler |-> "updateProduct", pc |-> "find", status |-> 0,
                 id |-> param, body |-> [quantity |-> qty]]
       IN  IF ~IsObjectId(param)
           THEN /\ reqs' = [reqs EXCEPT ![i] = Respond(r, 500)]
                /\ UNCHANGED products
           ELSE IF param \notin DOMAIN products
           THEN /\ reqs' = [reqs EXCEPT ![i] = Respond(r, 404)]
                /\ UNCHANGED products
           ELSE /\ products' = [products EXCEPT ![param].quantity = qty]
                /\ reqs' = [reqs EXCEPT ![i] = Respond(r, 200)]
    /\ UNCHANGED <<users, purchases, nextOid>>

InsufficientOff(quantity, quantityToReduce) == FALSE

InsufficientOrEqual(quantity, quantityToReduce) == quantity <= quantityToReduce

\* if (product.quantity < quantityToReduce)
Insufficient(quantity, quantityToReduce) == quantity < quantityToReduce

\* PUT /api/products/:id, first step: Product.findOne({product_id}), the two
\* checks, then product.quantity -= quantityToReduce on the handler's copy
ReduceQuantity(i, pid, quantityToReduce) ==
    /\ Free(i)
    /\ Dispatch("PUT", "/api/products/:id") = "reduceQuantity"
    /\ LET product == FindByProductId(pid)
           r == [method |-> "PUT", path |-> "/api/products/:id", handler |-> "reduceQuantity",
                 pc |-> "save", status |-> 0, id |-> pid,
                 body |-> [quantityToReduce |-> quantityToReduce], product |-> product]
       IN  reqs' = [reqs EXCEPT ![i] =
                IF product = NoDoc THEN Respond(r, 404)
                ELSE IF Insufficient(product.quantity, quantityToReduce) THEN Respond(r, 400)
                ELSE [r EXCEPT !.product.quantity = @ - quantityToReduce]]
    /\ UNCHANGED <<users, products, purchases, nextOid>>

\* what product.save() sends for the modified path: {$set: {quantity: <the copy's value>}}
SaveQuantity(coll, doc) ==
    [coll EXCEPT ![doc._id].quantity = doc.quantity]

\* the save as a decrement of the stored value ($inc) instead of a $set
ReduceSaveInc(i) ==
    /\ reqs[i].handler = "reduceQuantity" /\ reqs[i].pc = "save"
    /\ LET doc == reqs[i].product
           q == reqs[i].body.quantityToReduce
       IN  IF doc._id \notin DOMAIN products
           THEN /\ reqs' = [reqs EXCEPT ![i] = Respond(@, 500)]
                /\ UNCHANGED products
           ELSE /\ products' = [products EXCEPT ![doc._id].quantity = @ - q]
                /\ reqs' = [reqs EXCEPT ![i] = Respond(@, 200)]
    /\ UNCHANGED <<users, purchases, nextOid>>

\* second step: product.save().  Mongoose writes nothing when no path was
\* modified (an amount of 0 leaves the copy as read); whether it then still
\* looks the document up, and fails when it is gone, depends on the Mongoose
\* release, which the repository does not pin.  Otherwise it updates the
\* document with the copy's _id and throws DocumentNotFoundError when that
\* document is gone.
ReduceSave(i) ==
    /\ reqs[i].handler = "reduceQuantity" /\ reqs[i].pc = "save"
    /\ LET doc == reqs[i].product
           q == reqs[i].body.quantityToReduce
       IN  IF q = 0
           THEN /\ \E code \in (IF doc._id \in DOMAIN products THEN {200} ELSE {200, 500}) :
                      reqs' = [reqs EXCEPT ![i] = Respond(@, code)]
                /\ UNCHANGED products
           ELSE IF doc._id \notin DOMAIN products
           THEN /\ reqs' = [reqs EXCEPT ![i] = Respond(@, 500)]
                /\ UNCHANGED products
           ELSE /\ products' = SaveQuantity(products, doc)
                /\ reqs' = [reqs EXCEPT ![i] = Respond(@, 200)]
    /\ UNCHANGED <<users, purchases, nextOid>>

-----------------------------------------------------------------------------
(* POST /api/purchases *)

\* a save that also takes the line items out of the stock
SavePurchaseStock(i, body) ==
    /\ Free(i)
    /\ purchases' = Insert(purchases, NewOid, body)
    /\ nextOid' = nextOid + 1
    /\ products' = [id \in DOMAIN products |->
            IF \E n \in 1..Len(body.products) :
                    body.products[n].product_id = products[id].product_id
            THEN [products[id] EXCEPT !.quantity = @ - 1]
            ELSE products[id]]
    /\ reqs' = [reqs EXCEPT ![i] =
                    Respond([method |-> "POST", path |-> "/api/purchases",
                             handler |-> "savePurchase", pc |-> "save", status |-> 0,
                             body |-> body], 201)]
    /\ UNCHANGED users

\* one step: new Purchase(req.body).save()
SavePurchase(i, body) ==
    /\ Free(i)
    /\ Dispatch("POST", "/api/purchases") = "savePurchase"
    /\ purchases' = Insert(purchases, NewOid, body)
    /\ nextOid' = nextOid + 1
    /\ reqs' = [reqs EXCEPT ![i] =
                    Respond([method |-> "POST", path |-> "/api/purchases",
                             handler |-> "savePurchase", pc |-> "save", status |-> 0,
                             body |-> body], 201)]
    /\ UNCHANGED <<users, products>>

-----------------------------------------------------------------------------

\* The User handlers read and write the User collection alone and the
\* Product and Purchase handlers never touch it, so the two families are
\* explored apart; Next is their union.
NextUser ==
    \E i \in Slots :
        \/ \E body \in [username : Usernames, email : Emails,
                        password : Passwords, phone : Phones] : Signup(i, body)
        \/ SignupSave(i)
        \/ \E u \in Usernames, p \in Passwords : Login(i, u, p)

SpecUser == Init /\ [][NextUser]_vars


NextProduct ==
    \E i \in Slots :
        \/ \E pid \in ProductIds, qty \in Quantities : AddProduct(i, pid, qty)
        \/ \E param \in PathParams : DeleteProduct(i, param)
        \/ \E param \in PathParams, qty \in NewQuantities : UpdateProduct(i, param, qty)
        \/ \E pid \in ProductIds, q \in Amounts : ReduceQuantity(i, pid, q)
        \/ ReduceSave(i)
        \/ \E body \in PurchaseBodies : SavePurchase(i, body)

SpecProduct == Init /\ [][NextProduct]_vars

\* products touched by add and reduce requests only
NextReduce ==
    \E i \in Slots :
        \/ \E pid \in ProductIds, qty \in Quantities : AddProduct(i, pid, qty)
        \/ \E pid \in ProductIds, q \in Amounts : ReduceQuantity(i, pid, q)
        \/ ReduceSave(i)

SpecReduce == Init /\ [][NextReduce]_vars

Next == NextUser \/ NextProduct

Spec == Init /\ [][Next]_vars

-----------------------------------------------------------------------------
(* Vocabulary of the properties *)

Handled(i, h) == reqs[i].handler = h

\* the step in which slot i takes a request for handler h
Arrives(i, h) == reqs[i].pc = "idle" /\ reqs'[i].handler = h

\* the step in which the request in slot i, waiting at its save, gets its response
Saves(i, h) == reqs[i].handler = h /\ reqs[i].pc = "save" /\ reqs'[i].pc = "done"

\* reduce requests that passed both checks for product id and were answered 200
Reduced(id) ==
    {i \in Slots : /\ Handled(i, "reduceQuantity")
                   /\ reqs[i].status = 200
                   /\ reqs[i].product._id = id}

\* the quantity a reduce request read (its copy was decremented after the checks)
ReadQuantity(i) == reqs[i].product.quantity + reqs[i].body.quantityToReduce

\* the quantity product id was created with
CreatedWith(id) ==
    {reqs[i].body.quantity : i \in {j \in Slots : /\ Handled(j, "addProduct")
                                                   /\ reqs[j].status = 201
                                                   /\ reqs[j].product._id = id}}

\* a full-replace update has written product id
Replaced(id) ==
    \E i \in Slots : Handled(i, "updateProduct") /\ reqs[i].status = 200 /\ reqs[i].id = id

\* two reduce requests of product id that both passed the sufficiency check on
\* the same stored value before either wrote, and both wrote
Raced(i, j, id) ==
    /\ i # j
    /\ i \in Reduced(id) /\ j \in Reduced(id)
    /\ reqs[i].body.quantityToReduce > 0 /\ reqs[j].body.quantityToReduce > 0
    /\ ReadQuantity(i) = ReadQuantity(j)
    /\ CreatedWith(id) = {ReadQuantity(i)}

RECURSIVE SumAmounts(_)
SumAmounts(S) ==
    IF S = {} THEN 0
    ELSE LET i == CHOOSE x \in S : TRUE
         IN  reqs[i].body.quantityToReduce + SumAmounts(S \ {i})

NoSaveLeft == \A i \in Slots : reqs[i].pc # "save"

-----------------------------------------------------------------------------
(* C1 *)

\* C1 as stated: a product whose quantity is changed only by reduce
\* operations never has a negative quantity.
C1_NeverNegative ==
    \A id \in DOMAIN products : ~Replaced(id) => products[id].quantity >= 0

C1_WritesNonNegative ==
    \A i \in Slots : Saves(i, "reduceQuantity") =>
        \A id \in DOMAIN products :
            products'[id] # products[id] => products'[id].quantity >= 0

C1_StaysNonNegative ==
    \A id \in DOMAIN products :
        (~Replaced(id) /\ \A q \in CreatedWith(id) : q >= 0) => products[id].quantity >= 0

\* C1, amended: under any interleaving every value a reduce-quantity request
\* writes to Product.quantity is >= 0, so a product created with a quantity
\* >= 0 and changed only by reduce operations never has a negative quantity.
C1_ReduceNeverNegative == []C1_StaysNonNegative /\ [][C1_WritesNonNegative]_vars

\* two reduce requests raced on a product and it is still not negative
C1_Witness ==
    \E id \in DOMAIN products : \E i, j \in Slots :
        Raced(i, j, id) /\ products[id].quantity >= 0

-----------------------------------------------------------------------------
(* C2 *)

C2_Find ==
    \A i \in Slots : Arrives(i, "reduceQuantity") =>
        LET pid == reqs'[i].id
            q == reqs'[i].body.quantityToReduce
            hit == {id \in DOMAIN products : products[id].product_id = pid}
        IN  /\ products' = products
            /\ hit = {} => reqs'[i].status = 404
            /\ \A id \in hit :
                  IF products[id].quantity < q
                  THEN reqs'[i].status = 400
                  ELSE reqs'[i].pc = "save" /\ reqs'[i].product._id = id
                       /\ ReadQuantity(i)' = products[id].quantity

C2_Save ==
    \A i \in Slots : Saves(i, "reduceQuantity") =>
        LET id == reqs[i].product._id
            q == reqs[i].body.quantityToReduce
        IN  (id \in DOMAIN products /\ products[id].quantity = ReadQuantity(i)) =>
                /\ reqs'[i].status = 200
                /\ products' = [products EXCEPT ![id].quantity = products[id].quantity - q]

\* C2: a reduce request on product_id p by q answers 404 and changes nothing
\* when no product has product_id p, answers 400 and changes nothing when the
\* quantity is below q, and otherwise, when no other write reaches the product
\* between its read and its write (as when no request overlaps it), answers
\* 200 and stores exactly the old quantity minus q, every other product
\* unchanged.
C2_ReduceSequential == [][C2_Find /\ C2_Save]_vars

\* a reduce by the full quantity was answered 200 and left 0, beside another product
C2_Witness ==
    \E id \in DOMAIN products : \E i \in Reduced(id) :
        /\ reqs[i].body.quantityToReduce = MaxQty
        /\ CreatedWith(id) = {MaxQty}
        /\ products[id].quantity = 0
        /\ DOMAIN products # {id}

-----------------------------------------------------------------------------
(* C3 *)

C3_Unique ==
    \A a, b \in DOMAIN users :
        a # b => users[a].username # users[b].username /\ users[a].email # users[b].email

C3_Conflict ==
    \A i \in Slots : Arrives(i, "signup") =>
        ((\E id \in DOMAIN users : \/ users[id].username = reqs'[i].body.username
                                   \/ users[id].email = reqs'[i].body.email)
            => reqs'[i].status = 400 /\ reqs'[i].pc = "done" /\ users' = users)

\* C3: no two stored users ever share a username or an email, and a signup
\* that arrives when a stored user has its username or its email is answered
\* 400 and adds no record.
C3_SignupUnique == []C3_Unique /\ [][C3_Conflict]_vars

\* two signups for one username both passed the lookup; one was stored, the
\* other stopped by the index, and a third was turned away with 400
C3_Witness ==
    \E i, j, k \in Slots :
        /\ Handled(i, "signup") /\ reqs[i].status = 201
        /\ Handled(j, "signup") /\ reqs[j].status = 500
        /\ Handled(k, "signup") /\ reqs[k].status = 400

-----------------------------------------------------------------------------
(* C4 *)

C4_Login ==
    \A i \in Slots : Arrives(i, "login") =>
        LET u == reqs'[i].body.username
            p == reqs'[i].body.password
            stored == {id \in DOMAIN users : users[id].username = u}
        IN  /\ reqs'[i].pc = "done"
            /\ reqs'[i].status = 200 <=> \E id \in stored : users[id].password = p
            /\ reqs'[i].status = 400 <=> stored = {}
            /\ reqs'[i].status = 401 <=>
                  (stored # {} /\ \A id \in stored : users[id].password # p)
            /\ users' = users

\* C4: login answers 200 exactly when a user with the submitted username is
\* stored and its stored password equals the submitted one, 400 when no such
\* username is stored, 401 when it is stored with another password, and never
\* changes the User collection.
C4_LoginExact == [][C4_Login]_vars

\* one stored user, one login accepted and one refused for the letter case alone
C4_Witness ==
    \E i, j \in Slots :
        /\ Handled(i, "login") /\ reqs[i].status = 200
        /\ Handled(j, "login") /\ reqs[j].status = 401
        /\ reqs[i].body.username = reqs[j].body.username
        /\ reqs[i].body.password = "pw" /\ reqs[j].body.password = "PW"

-----------------------------------------------------------------------------
(* C5 *)

C5_Unique ==
    \A a, b \in DOMAIN products : a # b => products[a].product_id # products[b].product_id

C5_Duplicate ==
    \A i \in Slots : Arrives(i, "addProduct") =>
        ((\E id \in DOMAIN products : products[id].product_id = reqs'[i].body.product_id)
            => reqs'[i].status = 500 /\ products' = products)

\* C5: an add-product request whose product_id is that of a stored product
\* fails with 500 and leaves the Product collection as it was, so no two
\* stored products ever share a product_id.
C5_AddUnique == []C5_Unique /\ [][C5_Duplicate]_vars

\* a second add of a stored product_id was refused
C5_Witness ==
    \E i, j \in Slots :
        /\ Handled(i, "addProduct") /\ reqs[i].status = 201
        /\ Handled(j, "addProduct") /\ reqs[j].status = 500
        /\ reqs[i].body.product_id = reqs[j].body.product_id
        /\ reqs[i].product._id \in DOMAIN products

-----------------------------------------------------------------------------
(* C6 *)

C6_Missing ==
    \A i \in Slots :
        (reqs[i].pc = "idle" /\ reqs'[i].pc # "idle"
            /\ reqs'[i].method = "DELETE" /\ reqs'[i].path = "/api/products/:id") =>
        ((/\ reqs'[i].id \notin DOMAIN products
          /\ \A id \in DOMAIN products : products[id].product_id # reqs'[i].id)
            => /\ reqs'[i].status = 404
               /\ Cardinality(DOMAIN products') = Cardinality(DOMAIN products))

\* C6 as stated: a DELETE /api/products/:id whose parameter matches no stored
\* product, neither as _id nor as product_id, returns 404 and leaves the
\* size of the Product collection unchanged.
C6_DeleteMissing404 == [][C6_Missing]_vars

-----------------------------------------------------------------------------
(* C7 *)

C7_Purchase ==
    \A i \in Slots : Arrives(i, "savePurchase") =>
        /\ products' = products
        /\ \E id \in DOMAIN purchases' \ DOMAIN purchases :
              /\ DOMAIN purchases' = DOMAIN purchases \cup {id}
              /\ purchases'[id] = reqs'[i].body

C7_Immutable ==
    \A id \in DOMAIN purchases : id \in DOMAIN purchases' /\ purchases'[id] = purchases[id]

\* C7: recording a purchase adds exactly one Purchase record, the one sent,
\* and leaves the Product collection unchanged whatever its line items are;
\* no step modifies or removes a stored Purchase record.
C7_PurchaseFrame == [][C7_Purchase /\ C7_Immutable]_vars

\* a purchase listing a stored product is recorded and the product has the
\* quantity it was created with
C7_Witness ==
    \E p \in DOMAIN purchases : \E id \in DOMAIN products :
        /\ \E n \in 1..Len(purchases[p].products) :
              purchases[p].products[n].product_id = products[id].product_id
        /\ ~Replaced(id) /\ Reduced(id) = {}
        /\ CreatedWith(id) = {products[id].quantity}

-----------------------------------------------------------------------------
(* C8 *)

\* C8 as stated, in the case it describes: two reduce requests that both
\* passed the sufficiency check on the same stored value, and together took
\* more than it, leave the stored quantity negative once their writes landed.
C8_RaceGoesNegative ==
    \A id \in DOMAIN products : \A i, j \in Slots :
        (/\ Raced(i, j, id)
         /\ reqs[i].body.quantityToReduce + reqs[j].body.quantityToReduce > ReadQuantity(i)
         /\ NoSaveLeft)
            => products[id].quantity < 0

\* C8, amended: two concurrent reduce requests can both pass the sufficiency
\* check before either write lands; each then stores the value it read minus
\* its own amount, so the later write replaces the earlier one and the stored
\* quantity is that of one of the writers and is not negative.
C8_RaceOverwrites ==
    \A id \in DOMAIN products :
        LET writers == {i \in Reduced(id) : reqs[i].body.quantityToReduce # 0}
        IN  writers # {} =>
                /\ \E i \in writers : products[id].quantity = reqs[i].product.quantity
                /\ products[id].quantity >= 0

\* both passed the check on the same value, together took more than it, both wrote
C8_Witness ==
    \E id \in DOMAIN products : \E i, j \in Slots :
        /\ Raced(i, j, id)
        /\ reqs[i].body.quantityToReduce + reqs[j].body.quantityToReduce > ReadQuantity(i)
        /\ NoSaveLeft

-----------------------------------------------------------------------------
(* C9 *)

\* C9: every DELETE /api/products/:id request is run by the handler
\* registered first, which deletes by _id; the product_id handler never runs,
\* so a product a DELETE removed is the one whose _id is the parameter.
C9_FirstDeleteOnly ==
    \A i \in Slots :
        (reqs[i].pc # "idle" /\ reqs[i].method = "DELETE"
            /\ reqs[i].path = "/api/products/:id") =>
            /\ reqs[i].handler = "deleteProductById"
            /\ reqs[i].status = 200 => reqs[i].product._id = reqs[i].id

\* a DELETE named the product_id of a stored product and the product is still there
C9_Witness ==
    \E i \in Slots : \E id \in DOMAIN products :
        /\ reqs[i].pc = "done" /\ reqs[i].method = "DELETE"
        /\ reqs[i].id = products[id].product_id
        /\ \E j \in Slots : j < i /\ Handled(j, "addProduct") /\ reqs[j].product._id = id

-----------------------------------------------------------------------------
(* C10 *)

\* C10 as stated: for a product touched only by reduce-quantity requests,
\* once all requests have completed the stored quantity is the quantity it
\* was created with minus the sum of quantityToReduce over the requests
\* answered 200.
C10_NoLostReduction ==
    \A id \in DOMAIN products :
        NoSaveLeft =>
            \A q0 \in CreatedWith(id) : products[id].quantity = q0 - SumAmounts(Reduced(id))

====
